---- MODULE Spec2Model ----
(***************************************************************************)
(* Model of import_workflows.py: one run of main().  The run authenticates *)
(* (login exchange with fallback to a static key), probes the remote       *)
(* system, takes one snapshot of the remote workflow catalog and then      *)
(* processes the local workflow files one after the other.                 *)
(*                                                                         *)
(* The remote system and the files on disk are the environment: every      *)
(* response and every file content is drawn from a small set when the code *)
(* reads it.  Responses carry well-formed JSON objects (the remote API is  *)
(* taken as documented); file contents are arbitrary.                      *)
(***************************************************************************)
EXTENDS Integers, Sequences, FiniteSets, TLC

VARIABLES
    pc,                 \* position in main()
    secret_src,         \* .secret yields both an email and a password
    key_src,            \* n8n_api_key.txt yields a non-empty key
    update_existing,    \* args.update
    session,            \* main's session: TRUE iff a requests.Session is held
    api_key,            \* main's api_key: NoKey (None) or the key string
    existing_workflows, \* the Remote Catalog snapshot: name -> remote id
    nfiles,             \* len(workflow_files)
    idx,                \* number of files the loop has gone through
    success_count,
    skip_count,
    error_count,
    exit_code,          \* Running, 0 or 1
    reqs,               \* every HTTP request sent so far (as a set)
    cur,                \* the loop iteration just finished: file, calls, outcome
    parse_errors,       \* history: iterations that ended in the except clauses of the read
    clean,              \* history: [ok, names]; ok while every parsed definition had
                        \* a name absent from the snapshot and not met before and
                        \* no write failed; names: the names met (empty once ~ok)
    wire                \* a node list under repeated assign_redis_credentials calls

vars == <<pc, secret_src, key_src, update_existing, session, api_key,
          existing_workflows, nfiles, idx, success_count, skip_count,
          error_count, exit_code, reqs, cur, parse_errors, clean, wire>>

(***************************************************************************)
(* Bounds of the model.                                                    *)
(***************************************************************************)
MaxFiles == 4       \* files in the workflows directory
MaxNodes == 1       \* node descriptors of a definition
MaxWireNodes == 2   \* node descriptors of a list wired on its own
MaxPasses == 2      \* assign_redis_credentials calls on one list

Running == 0 - 1

(***************************************************************************)
(* Values.                                                                 *)
(***************************************************************************)
NoKey == ""
TheKey == "KEY"
NoId == ""
RedisLocal == "Redis Local"

\* The endpoints of lines 29-31 and the credentials URL of lines 214, 216.
N8N_API_ENDPOINT == "/api/v1/workflows"
N8N_REST_ENDPOINT == "/rest/workflows"
N8N_LOGIN_ENDPOINT == "/rest/login"
CredentialsEndpoint == "/rest/credentials"

(***************************************************************************)
(* Node descriptors.  A credentials value is absent, null, a non-mapping   *)
(* truthy JSON value ("scalar"), or a mapping; of a mapping the model      *)
(* keeps the "redis" slot, which is missing, holds a falsy value (null,    *)
(* {}) or holds a reference {id, name}.                                    *)
(***************************************************************************)
NoSlot == [kind |-> "missing", id |-> NoId, name |-> ""]
EmptySlot == [kind |-> "falsy", id |-> NoId, name |-> ""]
Ref(i, n) == [kind |-> "ref", id |-> i, name |-> n]

RemoteCredId == "cred-remote"     \* id of the remote 'Redis Local' credential
OldRef == Ref("cred-local", "Redis Old")

Slots == {NoSlot, EmptySlot, OldRef}

Absent == [shape |-> "absent", redis |-> NoSlot]
Null == [shape |-> "null", redis |-> NoSlot]
Scalar == [shape |-> "scalar", redis |-> NoSlot]
Mapping(r) == [shape |-> "map", redis |-> r]

CredentialValues ==
    {Absent, Null, Scalar} \cup {Mapping(r) : r \in Slots}

RedisType == "n8n-nodes-base.redis"
RedisTriggerType == "n8n-nodes-base.redisTrigger"
PostgresType == "n8n-nodes-base.postgres"
MySqlType == "n8n-nodes-base.mysql"
HttpRequestType == "n8n-nodes-base.httpRequest"
SetType == "n8n-nodes-base.set"

NodeTypes == {RedisType, RedisTriggerType, PostgresType, SetType}

Nodes == [type : NodeTypes, credentials : CredentialValues]

SeqsUpTo(S, n) == UNION {[1..k -> S] : k \in 0..n}

(***************************************************************************)
(* Local definitions: the parsed JSON object of a workflow file.  fields   *)
(* is the set of top-level keys other than "name" and "nodes".             *)
(***************************************************************************)
read_only_fields == {"active", "id", "createdAt", "updatedAt", "versionId", "tags"}
KeptField == "connections"

NoName == [given |-> FALSE, text |-> ""]
Named(n) == [given |-> TRUE, text |-> n]

LocalNames == {NoName, Named("A"), Named("B")}

FieldSets ==
    {{KeptField}, {KeptField, "id"}, {KeptField, "tags", "active"},
     read_only_fields \cup {KeptField}}

PlainNodeLists ==
    {<<>>, <<[type |-> RedisType, credentials |-> Null]>>}

Definition(n, f, ns) == [name |-> n, fields |-> f, nodes |-> ns]

LeanDefinitions ==
    {Definition(n, {KeptField, "id"}, ns) : n \in LocalNames, ns \in PlainNodeLists}

RichDefinitions ==
    {Definition(n, f, ns) : n \in LocalNames, f \in FieldSets,
                            ns \in SeqsUpTo(Nodes, MaxNodes)}

\* What json.load can find in a file of a directory of n files: anything of
\* RichDefinitions in the only file of a directory, a lean definition otherwise.
DefinitionsOnDisk(n) == IF n = 1 THEN RichDefinitions ELSE LeanDefinitions

NoDefinition == Definition(NoName, {}, <<>>)

(***************************************************************************)
(* Python truthiness of the JSON values of the model.                      *)
(***************************************************************************)
\* bool(slot value): a reference {id, name} is a non-empty dict.
SlotTruthy(sl) == sl.kind = "ref"

\* len(credentials) > 0 for a mapping: some slot is present.
MappingNonEmpty(c) == c.redis.kind # "missing"

\* bool(node.get("credentials", {})), line 289.
CredsTruthy(c) ==
    CASE c.shape = "absent" -> FALSE
      [] c.shape = "null" -> FALSE
      [] c.shape = "scalar" -> TRUE
      [] OTHER -> MappingNonEmpty(c)

\* Whether value.get(...) / value.values() exists: only a dict has them.
IsMapping(c) == c.shape \in {"absent", "map"}

(***************************************************************************)
(* assign_redis_credentials, lines 238-263.  The result tells whether the  *)
(* call raised (AttributeError on a credentials value without .get),       *)
(* whether it returns True, and the node list as the call leaves it.       *)
(***************************************************************************)
RedisBearing == {RedisType, RedisTriggerType}

\* Lines 251-262 for one node: [raised, updated, node].
AssignNode(node, redis_credential_id) ==
    IF node.type \notin RedisBearing
    THEN [raised |-> FALSE, updated |-> FALSE, node |-> node]
    ELSE IF ~IsMapping(node.credentials)
    THEN [raised |-> TRUE, updated |-> FALSE, node |-> node]
    ELSE IF SlotTruthy(node.credentials.redis)
    THEN [raised |-> FALSE, updated |-> FALSE, node |-> node]
    ELSE [raised |-> FALSE, updated |-> TRUE,
          node |-> [node EXCEPT !.credentials =
                       Mapping(Ref(redis_credential_id, RedisLocal))]]

RECURSIVE AssignFrom(_, _, _, _)
AssignFrom(nodes, redis_credential_id, i, updated) ==
    IF i > Len(nodes)
    THEN [raised |-> FALSE, updated |-> updated, nodes |-> nodes]
    ELSE LET r == AssignNode(nodes[i], redis_credential_id) IN
         IF r.raised
         THEN [raised |-> TRUE, updated |-> updated, nodes |-> nodes]
         ELSE AssignFrom([nodes EXCEPT ![i] = r.node], redis_credential_id,
                         i + 1, updated \/ r.updated)

assign_redis_credentials(nodes, redis_credential_id) ==
    AssignFrom(nodes, redis_credential_id, 1, FALSE)

(***************************************************************************)
(* check_credentials_needed, lines 266-292: [raised, labels].              *)
(***************************************************************************)
credential_nodes == {RedisType, PostgresType, MySqlType, HttpRequestType}

CredentialLabel(t) ==
    CASE t = RedisType -> "Redis"
      [] t = PostgresType -> "PostgreSQL"
      [] t = MySqlType -> "MySQL"
      [] OTHER -> "HTTP Request (potentially)"

\* any(credentials.values()), line 289, for a mapping.
AnyValue(c) == SlotTruthy(c.redis)

\* Lines 285-290 for one node: [raised, needs].
CheckNode(node) ==
    IF node.type \notin credential_nodes
    THEN [raised |-> FALSE, needs |-> FALSE]
    ELSE IF ~CredsTruthy(node.credentials)
    THEN [raised |-> FALSE, needs |-> TRUE]
    ELSE IF ~IsMapping(node.credentials)
    THEN [raised |-> TRUE, needs |-> FALSE]
    ELSE [raised |-> FALSE, needs |-> ~AnyValue(node.credentials)]

RECURSIVE CheckFrom(_, _, _)
CheckFrom(nodes, i, labels) ==
    IF i > Len(nodes)
    THEN [raised |-> FALSE, labels |-> labels]
    ELSE LET r == CheckNode(nodes[i]) IN
         IF r.raised
         THEN [raised |-> TRUE, labels |-> labels]
         ELSE CheckFrom(nodes, i + 1,
                        IF r.needs THEN Append(labels, CredentialLabel(nodes[i].type))
                                   ELSE labels)

check_credentials_needed(nodes) == CheckFrom(nodes, 1, <<>>)

(***************************************************************************)
(* HTTP requests.  via_session: sent with session.get/post/put rather than *)
(* requests.get/post/put; key_header: the headers carry X-N8N-API-KEY.     *)
(***************************************************************************)
NoPayload == [name |-> NoName, fields |-> {}, nodes |-> <<>>]

Request(op, via, key, endpoint, target, payload) ==
    [op |-> op, via_session |-> via, key_header |-> key, endpoint |-> endpoint,
     target |-> target, payload |-> payload]

\* What the run-level log keeps of a request.
Logged(r) == [op |-> r.op, via_session |-> r.via_session,
              key_header |-> r.key_header, endpoint |-> r.endpoint]

LoggedSet(calls) == {Logged(calls[i]) : i \in DOMAIN calls}

\* The call is sent with requests.* although a session is held.
ViaSessionNever(sess) == FALSE

\* "if session:" at lines 142, 213, 349, 382, 488: the call goes through the session.
ViaSession(sess) == sess

\* Lines 210 and 331 ("api_key and not session"); lines 148 and 494 test
\* api_key in the branch where session is falsy.
KeyHeader(sess, key) == key # NoKey /\ ~sess

\* Lines 144/150, 352/360, 385/393, 490/496.
WorkflowsEndpoint(sess) == IF sess THEN N8N_REST_ENDPOINT ELSE N8N_API_ENDPOINT

HttpResults == {"200", "status", "transport"}

(***************************************************************************)
(* get_existing_workflows, lines 127-172.  A response is a failure (other  *)
(* status, exception), a body of an unexpected type, or a list of remote    *)
(* records, bare or wrapped.                                               *)
(***************************************************************************)
RemoteRecord(n, i) == [name |-> n, id |-> i]

RemoteLists ==
    {<<>>,
     <<RemoteRecord("A", "w1"), RemoteRecord("Unknown", "w2")>>,
     <<RemoteRecord("A", "w1"), RemoteRecord("A", "w3")>>}

CatalogResponses ==
    {[kind |-> k, list |-> <<>>] : k \in {"failure", "unexpected"}}
        \cup {[kind |-> "list", list |-> l] : l \in RemoteLists}

\* Line 166: a dict comprehension, so a later record replaces an earlier one.
DictByName(list) ==
    [n \in {list[i].name : i \in DOMAIN list} |->
        LET last == CHOOSE i \in DOMAIN list :
                        /\ list[i].name = n
                        /\ \A j \in DOMAIN list : list[j].name = n => j <= i
        IN list[last].id]

EmptyDict == DictByName(<<>>)

get_existing_workflows(resp) ==
    IF resp.kind = "list" THEN DictByName(resp.list) ELSE EmptyDict

(***************************************************************************)
(* get_redis_credential_id, lines 196-235: one GET; every failure gives    *)
(* None.  The response is the id found for 'Redis Local', or NoId.         *)
(***************************************************************************)
CredentialLookups == {NoId, RemoteCredId}

CredentialsRequest(sess, key) ==
    Request("credentials", ViaSession(sess), KeyHeader(sess, key),
            CredentialsEndpoint, NoId, NoPayload)

(***************************************************************************)
(* import_workflow, lines 295-422, for a definition d, the catalog         *)
(* snapshot, the auth material, the update flag and the two responses the  *)
(* call can receive: lookup (the credential lookup) and write (the PUT or  *)
(* POST).  ret is "True", "False" or "raised" (an exception leaves the     *)
(* function).                                                              *)
(***************************************************************************)
\* Line 314.
WorkflowName(d) == IF d.name.given THEN d.name.text ELSE "Unknown"

\* The list of line 318 without its last entry.
StripReadOnlyButTags(fields) == fields \ (read_only_fields \ {"tags"})

\* Lines 318-320.
StripReadOnly(fields) == fields \ read_only_fields

\* Lines 346 and 379.
PopId(fields) == fields \ {"id"}

\* Lines 366 and 399.
WriteSucceeded(write) == write = "200"

ImportResult(calls, ret, wiring, write, advisory) ==
    [calls |-> calls, ret |-> ret, wiring |-> wiring, write |-> write,
     advisory |-> advisory]

\* Lines 340-375: the update branch.
UpdateWorkflow(name, payload, existing, sess, key, write, lookupCall, wiring) ==
    LET workflow_id == existing[name]
        put == Request("update", ViaSession(sess), KeyHeader(sess, key),
                       WorkflowsEndpoint(sess), workflow_id,
                       [payload EXCEPT !.fields = PopId(@)])
    IN ImportResult(<<lookupCall, put>>,
                    IF WriteSucceeded(write) THEN "True" ELSE "False",
                    wiring, write, "notcalled")

\* Lines 377-422: the create branch.
CreateWorkflow(payload, sess, key, write, lookupCall, wiring) ==
    LET body == [payload EXCEPT !.fields = PopId(@)]
        post == Request("create", ViaSession(sess), KeyHeader(sess, key),
                        WorkflowsEndpoint(sess), NoId, body)
        needed == check_credentials_needed(body.nodes)
    IN IF ~WriteSucceeded(write)
       THEN ImportResult(<<lookupCall, post>>, "False", wiring, write, "notcalled")
       ELSE IF needed.raised
       THEN ImportResult(<<lookupCall, post>>, "False", wiring, write, "raised")
       ELSE ImportResult(<<lookupCall, post>>, "True", wiring, write, "listed")

import_workflow(d, existing, sess, key, update, lookup, write) ==
    LET workflow_name == WorkflowName(d)
        stripped == StripReadOnly(d.fields)
        lookupCall == CredentialsRequest(sess, key)
        assigned == assign_redis_credentials(d.nodes, lookup)
        wiring == IF lookup = NoId THEN "notcalled"
                  ELSE IF assigned.raised THEN "raised"
                  ELSE IF assigned.updated THEN "assigned"
                  ELSE "unchanged"
        nodes == IF lookup = NoId THEN d.nodes ELSE assigned.nodes
        payload == [name |-> d.name, fields |-> stripped, nodes |-> nodes]
    IN IF wiring = "raised"
       THEN ImportResult(<<lookupCall>>, "raised", wiring, "none", "notcalled")
       ELSE IF workflow_name \in DOMAIN existing
       THEN IF ~update
            THEN ImportResult(<<lookupCall>>, "False", wiring, "none", "notcalled")
            ELSE UpdateWorkflow(workflow_name, payload, existing, sess, key, write,
                                lookupCall, wiring)
       ELSE CreateWorkflow(payload, sess, key, write, lookupCall, wiring)

\* Line 538: workflow_data.get("name") in existing_workflows.
NameInCatalog(d, existing) == d.name.given /\ d.name.text \in DOMAIN existing

\* Lines 533-541: the counter main increments for a returned value.
Classify(ret, d, existing, update) ==
    IF ret = "True" THEN "Imported"
    ELSE IF ret = "False" /\ NameInCatalog(d, existing) /\ ~update THEN "Skipped"
    ELSE "Error"

\* Line 570 with the comparison off by one.
ExitStatusAboveOne(errors) == IF errors > 1 THEN 1 ELSE 0

\* Lines 570-571.
ExitStatus(errors) == IF errors > 0 THEN 1 ELSE 0

\* Lines 461 and 473.
load_credentials(src) == src
load_api_key(src) == IF src THEN TheKey ELSE NoKey

(***************************************************************************)
(* The run.                                                                *)
(***************************************************************************)
Iteration(read, d, res, outcome, lookup) ==
    [read |-> read, def |-> d, calls |-> res.calls, ret |-> res.ret,
     wiring |-> res.wiring, write |-> res.write, advisory |-> res.advisory,
     outcome |-> outcome, lookup |-> lookup]

NoResult == ImportResult(<<>>, "none", "notcalled", "none", "notcalled")

NoIteration == Iteration("none", NoDefinition, NoResult, "none", NoId)

\* wire: the credential id, the node list before the first call and after
\* each call, and how each call ended: "True", "False" or "raised".
Wired(i, lists, returns) == [id |-> i, lists |-> lists, returns |-> returns]

NoWire == Wired(NoId, <<>>, <<>>)

Init ==
    /\ wire = NoWire
    /\ pc = "authenticate"
    /\ secret_src \in BOOLEAN
    /\ key_src \in BOOLEAN
    /\ update_existing \in BOOLEAN
    /\ session = FALSE
    /\ api_key = NoKey
    /\ existing_workflows = EmptyDict
    /\ nfiles = 0
    /\ idx = 0
    /\ success_count = 0
    /\ skip_count = 0
    /\ error_count = 0
    /\ exit_code = Running
    /\ reqs = {}
    /\ cur = NoIteration
    /\ parse_errors = 0
    /\ clean = [ok |-> TRUE, names |-> {}]

LoginRequest ==
    [op |-> "login", via_session |-> TRUE, key_header |-> FALSE,
     endpoint |-> N8N_LOGIN_ENDPOINT]

\* login_with_credentials, lines 89-124: the session, or None.
login_with_credentials(result) == result = "200"

\* Lines 456-481: login exchange when .secret yields credentials, else (or
\* on failure) the static key, else exit 1.
Authenticate ==
    /\ pc = "authenticate"
    /\ \E result \in HttpResults :
        LET tried == load_credentials(secret_src)
            sess == tried /\ login_with_credentials(result)
            key == IF ~sess THEN load_api_key(key_src) ELSE NoKey
        IN /\ session' = sess
           /\ api_key' = key
           /\ reqs' = IF tried THEN reqs \cup {LoginRequest} ELSE reqs
           /\ IF ~sess /\ key = NoKey
              THEN pc' = "exit" /\ exit_code' = 1
              ELSE pc' = "probe" /\ exit_code' = exit_code
    /\ UNCHANGED <<wire, secret_src, key_src, update_existing, existing_workflows, nfiles,
                   idx, success_count, skip_count, error_count, cur, parse_errors,
                   clean>>

ProbeRequest(sess, key) ==
    [op |-> "probe", via_session |-> ViaSession(sess),
     key_header |-> KeyHeader(sess, key), endpoint |-> WorkflowsEndpoint(sess)]

\* Lines 483-507: the connectivity probe.
Probe ==
    /\ pc = "probe"
    /\ \E result \in HttpResults :
        /\ reqs' = reqs \cup {ProbeRequest(session, api_key)}
        /\ IF result = "200"
           THEN pc' = "catalog" /\ exit_code' = exit_code
           ELSE pc' = "exit" /\ exit_code' = 1
    /\ UNCHANGED <<wire, secret_src, key_src, update_existing, session, api_key,
                   existing_workflows, nfiles, idx, success_count, skip_count,
                   error_count, cur, parse_errors, clean>>

ListRequest(sess, key) ==
    [op |-> "list", via_session |-> ViaSession(sess),
     key_header |-> KeyHeader(sess, key), endpoint |-> WorkflowsEndpoint(sess)]

\* Lines 509-512: the catalog snapshot.
FetchCatalog ==
    /\ pc = "catalog"
    /\ \E resp \in CatalogResponses :
        existing_workflows' = get_existing_workflows(resp)
    /\ reqs' = reqs \cup {ListRequest(session, api_key)}
    /\ pc' = "files"
    /\ UNCHANGED <<wire, secret_src, key_src, update_existing, session, api_key, nfiles,
                   idx, success_count, skip_count, error_count, exit_code, cur,
                   parse_errors, clean>>

\* Lines 514-524: load_workflow_files and the counters.
LoadFiles ==
    /\ pc = "files"
    /\ \E n \in 0..MaxFiles :
        /\ nfiles' = n
        /\ IF n = 0
           THEN pc' = "exit" /\ exit_code' = 0
           ELSE pc' = "loop" /\ exit_code' = exit_code
    /\ UNCHANGED <<wire, secret_src, key_src, update_existing, session, api_key,
                   existing_workflows, idx, success_count, skip_count, error_count,
                   reqs, cur, parse_errors, clean>>

Tally(outcome) ==
    /\ success_count' = success_count + (IF outcome = "Imported" THEN 1 ELSE 0)
    /\ skip_count' = skip_count + (IF outcome = "Skipped" THEN 1 ELSE 0)
    /\ error_count' = error_count + (IF outcome = "Error" THEN 1 ELSE 0)

StillClean(c, name, write) ==
    IF /\ c.ok
       /\ name \notin DOMAIN existing_workflows
       /\ name \notin c.names
       /\ write \in {"none", "200"}
    THEN [ok |-> TRUE, names |-> c.names \cup {name}]
    ELSE [ok |-> FALSE, names |-> {}]

\* Lines 543-548: the file cannot be read or is not JSON.
ReadFails ==
    \E read \in {"invalid", "unreadable"} :
        /\ cur' = Iteration(read, NoDefinition, NoResult, "Error", NoId)
        /\ Tally("Error")
        /\ parse_errors' = parse_errors + 1
        /\ UNCHANGED <<reqs, clean>>

\* Lines 530-541 and 546-548: the file parses and import_workflow runs.
ReadSucceeds ==
    \E d \in DefinitionsOnDisk(nfiles), lookup \in CredentialLookups,
       write \in HttpResults :
        LET res == import_workflow(d, existing_workflows, session, api_key,
                                   update_existing, lookup, write)
            outcome == Classify(res.ret, d, existing_workflows, update_existing)
        IN /\ cur' = Iteration("ok", d, res, outcome, lookup)
           /\ Tally(outcome)
           /\ reqs' = reqs \cup LoggedSet(res.calls)
           /\ clean' = StillClean(clean, WorkflowName(d), res.write)
           /\ UNCHANGED parse_errors

\* Lines 526-548: one iteration of the loop.
ProcessFile ==
    /\ pc = "loop"
    /\ idx < nfiles
    /\ idx' = idx + 1
    /\ ReadFails \/ ReadSucceeds
    /\ UNCHANGED <<wire, pc, secret_src, key_src, update_existing, session, api_key,
                   existing_workflows, nfiles, exit_code>>

\* Lines 550-571: the summary and the exit status.
Summary ==
    /\ pc = "loop"
    /\ idx = nfiles
    /\ pc' = "exit"
    /\ exit_code' = ExitStatus(error_count)
    /\ UNCHANGED <<wire, secret_src, key_src, update_existing, session, api_key,
                   existing_workflows, nfiles, idx, success_count, skip_count,
                   error_count, reqs, cur, parse_errors, clean>>

(***************************************************************************)
(* assign_redis_credentials on its own: a node list and a known credential *)
(* id, and the function called on the list again and again.  The list is   *)
(* mutated in place, so a call that raises leaves the nodes before the     *)
(* offending one wired.                                                    *)
(***************************************************************************)
InitWire ==
    /\ pc = "wire"
    /\ secret_src = FALSE
    /\ key_src = FALSE
    /\ update_existing = FALSE
    /\ session = FALSE
    /\ api_key = NoKey
    /\ existing_workflows = EmptyDict
    /\ nfiles = 0
    /\ idx = 0
    /\ success_count = 0
    /\ skip_count = 0
    /\ error_count = 0
    /\ exit_code = Running
    /\ reqs = {}
    /\ cur = NoIteration
    /\ parse_errors = 0
    /\ clean = [ok |-> TRUE, names |-> {}]
    /\ wire \in {Wired(RemoteCredId, <<ns>>, <<>>) :
                     ns \in SeqsUpTo(Nodes, MaxWireNodes)}

\* One call of assign_redis_credentials, lines 238-263.
Pass ==
    /\ pc = "wire"
    /\ Len(wire.returns) < MaxPasses
    /\ LET r == assign_redis_credentials(wire.lists[Len(wire.lists)], wire.id)
       IN wire' = Wired(wire.id, Append(wire.lists, r.nodes),
                        Append(wire.returns,
                               IF r.raised THEN "raised"
                               ELSE IF r.updated THEN "True" ELSE "False"))
    /\ UNCHANGED <<pc, secret_src, key_src, update_existing, session, api_key,
                   existing_workflows, nfiles, idx, success_count, skip_count,
                   error_count, exit_code, reqs, cur, parse_errors, clean>>

NextWire == Pass

SpecWire == InitWire /\ [][NextWire]_vars

Next ==
    \/ Authenticate
    \/ Probe
    \/ FetchCatalog
    \/ LoadFiles
    \/ ProcessFile
    \/ Summary

Spec == Init /\ [][Next]_vars

(***************************************************************************)
(* Vocabulary of the properties.                                           *)
(***************************************************************************)
CountOp(calls, op) == Cardinality({i \in DOMAIN calls : calls[i].op = op})

WriteOps == {"create", "update"}

Writes(calls) == {calls[i] : i \in {j \in DOMAIN calls : calls[j].op \in WriteOps}}

\* The iteration just finished parsed its file into a definition.
Parsed == cur.read = "ok"

\* The name import_workflow matches the definition under is in the snapshot.
Present == WorkflowName(cur.def) \in DOMAIN existing_workflows

OpsSent == {r.op : r \in reqs}

NoWriteSent == OpsSent \cap WriteOps = {}

(***************************************************************************)
(* C1: on the create path and on the update path, the payload sent to the  *)
(* remote system holds none of the top-level fields active, id, createdAt, *)
(* updatedAt, versionId, tags, whatever fields the definition had when it  *)
(* was loaded.                                                             *)
(***************************************************************************)
C1_PayloadWithoutReadOnlyFields ==
    \A w \in Writes(cur.calls) : w.payload.fields \cap read_only_fields = {}

\* An update was sent for a definition loaded with all six fields; the other
\* top-level field went out with it.
C1_Witness ==
    /\ Parsed
    /\ read_only_fields \subseteq cur.def.fields
    /\ \E w \in Writes(cur.calls) : w.op = "update" /\ KeptField \in w.payload.fields

(***************************************************************************)
(* C2: a definition whose matching name is in the snapshot, update mode    *)
(* off: no create or update call for the file, and the file is tallied as  *)
(* Skipped-Exists; also for a definition without a name field, matched     *)
(* under "Unknown".                                                        *)
(***************************************************************************)
C2_PresentWithoutUpdateIsSkipped ==
    (Parsed /\ Present /\ ~update_existing)
        => (Writes(cur.calls) = {} /\ cur.outcome = "Skipped")

(***************************************************************************)
(* C3: a definition whose name is in the snapshot, update mode on: exactly *)
(* one PUT for the file, addressed by the id of the snapshot record, with  *)
(* no id field in the payload, and no POST, whether the PUT succeeds or    *)
(* fails.                                                                  *)
(***************************************************************************)
C3_PresentWithUpdateIsOnePut ==
    (Parsed /\ Present /\ update_existing)
        => /\ CountOp(cur.calls, "update") = 1
           /\ CountOp(cur.calls, "create") = 0
           /\ \A w \in Writes(cur.calls) :
                /\ w.target = existing_workflows[WorkflowName(cur.def)]
                /\ "id" \notin w.payload.fields

(***************************************************************************)
(* C4: a definition whose name is not in the snapshot: exactly one POST    *)
(* and no PUT for the file, in update mode and in non-update mode, and no  *)
(* second attempt when the POST fails.                                     *)
(***************************************************************************)
C4_AbsentIsOnePost ==
    (Parsed /\ ~Present)
        => /\ CountOp(cur.calls, "create") = 1
           /\ CountOp(cur.calls, "update") = 0

(***************************************************************************)
(* C5: one auth mode for the whole run.  When .secret and the key file     *)
(* both yield material and the login exchange succeeds, no request of the  *)
(* run (probe, catalog listing, credential lookup, create, update) carries *)
(* the X-N8N-API-KEY header and each one goes through the session; the     *)
(* run never holds a session and a key together.                           *)
(***************************************************************************)
C5_SessionModeNeverSendsKey ==
    /\ ~(session /\ api_key # NoKey)
    /\ (secret_src /\ key_src /\ session)
           => \A r \in reqs : r.via_session /\ ~r.key_header

\* Both sources present, login succeeded, and the run has sent every kind of
\* request.
C5_Witness ==
    /\ secret_src /\ key_src /\ session
    /\ {"login", "probe", "list", "credentials", "create", "update"} \subseteq OpsSent

(***************************************************************************)
(* C6: a login exchange that fails (status other than 200, transport       *)
(* failure) gives no session and does not end the run: with a static key   *)
(* the run goes on in key mode, every later request on the versioned API   *)
(* endpoint with the key header; the run ends at this stage only when      *)
(* there is no static key either.                                          *)
(***************************************************************************)
LoginFailed == pc # "authenticate" /\ secret_src /\ ~session

\* The run ended in the authentication stage: nothing but the login was sent.
EndedAtAuthentication == pc = "exit" /\ OpsSent \subseteq {"login"}

C6_FailedLoginFallsBackToKeyMode ==
    LoginFailed
        => /\ EndedAtAuthentication <=> ~key_src
           /\ key_src =>
                /\ api_key = TheKey
                /\ \A r \in reqs : r.op # "login" =>
                      /\ ~r.via_session
                      /\ r.key_header
                      /\ r.endpoint = N8N_API_ENDPOINT

(***************************************************************************)
(* C7: exit status.  Without a usable credential, or when the connectivity *)
(* probe fails or answers another status than 200, the run exits 1 before  *)
(* any file is processed and before any create or update.  Past both, it   *)
(* exits non-zero exactly when error_count > 0; with no local file it      *)
(* exits 0 with nothing tallied.                                           *)
(***************************************************************************)
NoCredential == ~session /\ api_key = NoKey

ProbeFailed == "probe" \in OpsSent /\ "list" \notin OpsSent

NothingProcessed ==
    /\ idx = 0
    /\ cur = NoIteration
    /\ success_count + skip_count + error_count = 0
    /\ NoWriteSent

C7_ExitStatus ==
    /\ pc # "exit" => exit_code = Running
    /\ pc = "exit" =>
        IF NoCredential \/ ProbeFailed
        THEN exit_code = 1 /\ NothingProcessed
        ELSE /\ exit_code \in {0, 1}
             /\ exit_code # 0 <=> error_count > 0
             /\ nfiles = 0 => exit_code = 0 /\ NothingProcessed

\* A run that passed authentication and probe, skipped a file, imported a
\* file, failed on a file and exited 1.
C7_Witness ==
    /\ pc = "exit" /\ "list" \in OpsSent
    /\ error_count > 0 /\ skip_count > 0 /\ success_count > 0
    /\ exit_code = 1

(***************************************************************************)
(* C8: per-file errors stay with their file.  A file that does not parse,  *)
(* or whose remote write fails, counts as one Error, and the files after   *)
(* it are still processed; after the loop the three counters add up to the *)
(* number of files.  Two malformed files and two valid files with distinct *)
(* names absent from the snapshot, the remote accepting what it is sent,   *)
(* end with 2 errors, 2 imports and exit status 1.                         *)
(***************************************************************************)
ReadFailed == cur.read \in {"invalid", "unreadable"}

WriteFailed == cur.write \in {"status", "transport"}

C8_PerFileErrorsAreIsolated ==
    /\ (ReadFailed \/ WriteFailed) => cur.outcome = "Error"
    /\ success_count + skip_count + error_count = idx
    /\ error_count >= parse_errors
    /\ (pc = "exit" /\ "list" \in OpsSent) => idx = nfiles
    /\ (pc = "exit" /\ nfiles = 4 /\ parse_errors = 2 /\ clean.ok)
           => error_count = 2 /\ success_count = 2 /\ skip_count = 0 /\ exit_code = 1

(***************************************************************************)
(* C9: auto-wiring never fails the sync of a file.  For every parsed       *)
(* definition, whatever the credentials of its nodes (null, absent, empty, *)
(* populated) and whether or not the credential lookup gave an id,         *)
(* import_workflow gets to its create/update/skip decision and sends the   *)
(* write the decision asks for.                                            *)
(***************************************************************************)
C9_AutoWiringNeverBlocksTheWrite ==
    Parsed
        => /\ cur.wiring # "raised"
           /\ cur.ret \in {"True", "False"}
           /\ Cardinality(Writes(cur.calls)) =
                  (IF Present /\ ~update_existing THEN 0 ELSE 1)

(***************************************************************************)
(* C10: after a create that returned a success status the file is tallied  *)
(* as Imported, never as Error, whatever its node descriptors contain: the *)
(* list of nodes needing credentials is advisory.                          *)
(***************************************************************************)
C10_AdvisoryCheckKeepsImported ==
    (Parsed /\ CountOp(cur.calls, "create") = 1 /\ WriteSucceeded(cur.write))
        => cur.outcome = "Imported"

(***************************************************************************)
(* C11: auto-wiring is idempotent.  For a node of type redis or            *)
(* redisTrigger with an empty redis slot and a known credential id, after  *)
(* assign_redis_credentials the slot holds the reference {id, 'Redis       *)
(* Local'} and the call returns True; a second call on the same definition *)
(* changes nothing and returns False; a populated slot is never            *)
(* overwritten.                                                            *)
(***************************************************************************)
\* The redis slot of a credential-bearing node is there to be filled.
EmptyRedisSlot(node) ==
    /\ node.type \in RedisBearing
    /\ IsMapping(node.credentials)
    /\ ~SlotTruthy(node.credentials.redis)

PopulatedSlot(node) ==
    IsMapping(node.credentials) /\ SlotTruthy(node.credentials.redis)

C11_AutoWiringIsIdempotent ==
    LET original == wire.lists[1]
        passes == Len(wire.returns)
        toFill == {i \in DOMAIN original : EmptyRedisSlot(original[i])}
    IN pc = "wire" =>
        /\ (passes >= 1 /\ toFill # {}) =>
              /\ wire.returns[1] = "True"
              /\ \A i \in toFill :
                    wire.lists[2][i].credentials.redis = Ref(wire.id, RedisLocal)
        /\ (passes >= 2 /\ toFill # {}) =>
              /\ wire.returns[2] = "False"
              /\ wire.lists[3] = wire.lists[2]
        /\ \A k \in DOMAIN wire.lists : \A i \in DOMAIN original :
              PopulatedSlot(original[i]) => wire.lists[k][i] = original[i]

(***************************************************************************)
(* C12: the Remote Catalog snapshot is fetched once and no per-file step   *)
(* changes it: a successful create adds no entry, an update changes none.  *)
(* So when two local files carry the same name and the name is absent from *)
(* the snapshot, each of the two issues its own create call in the run.    *)
(***************************************************************************)
AfterFetch == {"files", "loop", "exit"}

\* The step processes a file right after a file matched under the same name,
\* a name the snapshot does not hold.
SameAbsentNameTwice ==
    /\ idx' = idx + 1
    /\ cur.read = "ok"
    /\ cur'.read = "ok"
    /\ WorkflowName(cur'.def) = WorkflowName(cur.def)
    /\ WorkflowName(cur.def) \notin DOMAIN existing_workflows

C12_SnapshotIsReadOnly ==
    [][/\ existing_workflows' # existing_workflows => pc = "catalog"
       /\ pc = "catalog" => pc' \in AfterFetch
       /\ pc \in AfterFetch => pc' \in AfterFetch
       /\ SameAbsentNameTwice =>
             /\ CountOp(cur.calls, "create") = 1
             /\ CountOp(cur'.calls, "create") = 1]_vars

====
